---------------------------- MODULE Spec2Model ----------------------------
(***************************************************************************)
(* A model of svelte-preprocess: the option merge (getTransformerOptions), *)
(* the transform dispatcher (transform), the per-block pipeline            *)
(* (getTransformerTo, script, style) of sveltePreprocess, the markup entry  *)
(* point of autoPreprocess (wrapper tag pattern, attribute parser, splice)  *)
(* and the standalone scss and typescript processors.                      *)
(*                                                                         *)
(* Strings that the code only compares are model tokens.  Strings that the *)
(* code takes apart (the document, the attribute string) are sequences of  *)
(* characters, a word the code never looks into counting as one character. *)
(***************************************************************************)
EXTENDS Integers, Sequences, FiniteSets, TLC

VARIABLES
    transformers,   \* the user's per-language config (rest of the options)
    preserve,       \* the preserve list, as a set
    sourceMap,      \* the sourceMap toggle
    postcssInstalled, \* what hasDepInstalled('postcss') answers
    pc,             \* where the block being processed stands
    kind,           \* "script" | "style" | "none": the entry point invoked
    block,          \* the svelteFile handed to the entry point
    result,         \* the accumulated {code, map, dependencies, diagnostics}
    calls,          \* what the block's stages loaded and called, in order
    optArgs,        \* getTransformerOptions' arguments, called on its own
    optOut,         \* and what it returned
    attrStr,        \* the wrapper tag's attribute string
    attrOut,        \* and the attribute bag parsed from it
    processorOptions, \* the options a standalone processor was made with
    onBefore,       \* whether an onBefore function is configured
    markupTagName,  \* the markupTagName option, as the user gave it
    document,       \* the content the host handed to markup
    markupContent,  \* markup's `content` variable
    templateMatch,  \* what content.match(markupPattern) gave
    optionsCache,   \* autoPreprocess' optionsCache: per alias, the bag kept
    objects,        \* how many option objects were created so far
    optId,          \* which object getTransformerOptions returned last
    inflight,       \* the blocks autoPreprocess is processing at once
    tsEnv,          \* the tsconfig file the typescript transformer may find
    tsArgs,         \* the options the typescript transformer was called with
    tsRun           \* how its call went

vars == << transformers, preserve, sourceMap, postcssInstalled, pc, kind,
           block, result, calls, optArgs, optOut, attrStr, attrOut,
           processorOptions, onBefore, markupTagName, document, markupContent,
           templateMatch, optionsCache, objects, optId, inflight,
           tsEnv, tsArgs, tsRun >>

-----------------------------------------------------------------------------
(* Option bags *)

UNDEF == "undefined"

\* The option keys the model tells apart.
OptionKeys == {"indentedSyntax", "prependData", "sourceMap"}

\* An option value is one of these; UNSET marks a key the bag does not have.
UNSET == "unset"
OptionValues == {"true", "false"}

Bags == [OptionKeys -> OptionValues \cup {UNSET}]

EmptyBag == [k \in OptionKeys |-> UNSET]

Has(bag, k) == bag[k] # UNSET

\* Object.assign(target, source): the source's own keys overwrite.
Assign(target, source) ==
    [k \in OptionKeys |-> IF Has(source, k) THEN source[k] ELSE target[k]]

\* A TransformerOptions value: undefined, false, true, a function or an object.
\* fn names the function (the config key it was given under).
Absent      == [kind |-> UNDEF, bag |-> EmptyBag, fn |-> ""]
OptFalse    == [kind |-> "false", bag |-> EmptyBag, fn |-> ""]
OptTrue     == [kind |-> "true", bag |-> EmptyBag, fn |-> ""]
OptFn(id)   == [kind |-> "function", bag |-> EmptyBag, fn |-> id]
OptObj(bag) == [kind |-> "object", bag |-> bag, fn |-> ""]

\* transformers[key]; a key the user did not give is undefined.
Lookup(key) ==
    IF key \in DOMAIN transformers THEN transformers[key] ELSE Absent

-----------------------------------------------------------------------------
(* Language registry *)

\* The built-in per-alias defaults: sass asks for the indented syntax.
ALIAS_OPTION_OVERRIDES(name) ==
    IF name = "sass"
    THEN [EmptyBag EXCEPT !["indentedSyntax"] = "true"]
    ELSE EmptyBag

\* getLanguageDefaults(lang): null (nothing to assign) for a language without.
getLanguageDefaults(name) == ALIAS_OPTION_OVERRIDES(name)

\* The languages that have a source map option.
SOURCE_MAP_PROP_MAP == {"typescript", "scss", "postcss", "babel"}

\* setProp(opts, path, value) for the language's source map option.
setProp(bag) == [bag EXCEPT !["sourceMap"] = "true"]

-----------------------------------------------------------------------------
(* sveltePreprocess.getTransformerOptions *)

\* The object branch: the layers in the order the code assigns them.
MergeLayers(nameOpts, aliasOpts, name, alias) ==
    LET o1 == IF nameOpts.kind = "object"
              THEN Assign(EmptyBag, nameOpts.bag)
              ELSE EmptyBag
        o2 == Assign(Assign(o1, getLanguageDefaults(name)),
                     getLanguageDefaults(alias))
    IN  IF name # alias /\ aliasOpts.kind = "object"
        THEN Assign(o2, aliasOpts.bag)
        ELSE o2

\* The same with the test for false put before the tests for a function.
GetTransformerOptionsFalseFirst(name, alias) ==
    LET nameOpts  == Lookup(name)
        aliasOpts == Lookup(alias)
        merged    == MergeLayers(nameOpts, aliasOpts, name, alias)
    IN  IF aliasOpts.kind = "false" \/ nameOpts.kind = "false" THEN OptFalse
        ELSE IF aliasOpts.kind = "function" THEN aliasOpts
        ELSE IF nameOpts.kind = "function" THEN nameOpts
        ELSE IF sourceMap /\ name \in SOURCE_MAP_PROP_MAP
             THEN OptObj(setProp(merged))
             ELSE OptObj(merged)

GetTransformerOptions(name, alias) ==
    LET nameOpts  == Lookup(name)
        aliasOpts == Lookup(alias)
        merged    == MergeLayers(nameOpts, aliasOpts, name, alias)
    IN  IF aliasOpts.kind = "function" THEN aliasOpts
        ELSE IF nameOpts.kind = "function" THEN nameOpts
        ELSE IF aliasOpts.kind = "false" \/ nameOpts.kind = "false" THEN OptFalse
        ELSE IF sourceMap /\ name \in SOURCE_MAP_PROP_MAP
             THEN OptObj(setProp(merged))
             ELSE OptObj(merged)

-----------------------------------------------------------------------------
(* Aliases and tag info *)

NONE == "none"

\* The alias table: the built-in aliases and the pair the `aliases` option
\* adds, ['cst', 'customLanguage'].
ALIAS_MAP ==
    [a \in {"javascript", "js", "css", "scss", "sass", "typescript", "ts",
             "cst", "html", "pug"} |->
        CASE a = "sass" -> "scss"
          [] a = "ts"   -> "typescript"
          [] a = "js"   -> "javascript"
          [] a = "cst"  -> "customLanguage"
          [] OTHER      -> a]

\* The canonical language of an alias; undefined for a token nobody registered.
getLanguageFromAlias(alias) ==
    IF alias \in DOMAIN ALIAS_MAP THEN ALIAS_MAP[alias] ELSE UNDEF

\* The token that declares the block's language: the lang (or type) attribute,
\* else the extension of the src file.
DeclaredToken(attributes) ==
    IF attributes.lang # NONE THEN attributes.lang
    ELSE IF attributes.src # NONE THEN attributes.src
    ELSE UNDEF

\* getLanguage(attributes): {lang, alias}; both stay undefined when the token
\* resolves to no language.
getLanguage(attributes) ==
    LET token == DeclaredToken(attributes)
        lang  == getLanguageFromAlias(token)
    IN  IF lang = UNDEF
        THEN [lang |-> UNDEF, alias |-> UNDEF]
        ELSE [lang |-> lang, alias |-> token]

\* A list the code may leave undefined: concat skips an undefined one.
NoList    == [defined |-> FALSE, items |-> << >>]
Arr(list) == [defined |-> TRUE, items |-> list]

concat(a, b) == Arr(a.items \o b.items)

\* Content: the indentation of each of its lines, whether a prelude was put in
\* front, and the stages that rewrote it, in order.
Text(lines) == [lines |-> lines, prepended |-> FALSE, by |-> << >>]

\* The content of the external file a src attribute names.
ExternalContent == Text(<< 1, 1 >>)

\* The dependency a src attribute adds: the path of the external file.
SrcDependency(attributes) == << "src", attributes.src >>

\* getTagInfo(svelteFile): the block's content (the external file's when src
\* is given, and then a failure to read it rejects), language and alias.
getTagInfo(svelteFile) ==
    LET la == getLanguage(svelteFile.attributes)
        inline == [ok |-> TRUE, content |-> svelteFile.content,
                   lang |-> la.lang, alias |-> la.alias,
                   dependencies |-> << >>]
    IN  IF svelteFile.attributes.src = NONE
        THEN {inline}
        ELSE { [inline EXCEPT !.content = ExternalContent,
                   !.dependencies = << SrcDependency(svelteFile.attributes) >>],
               [inline EXCEPT !.ok = FALSE] }

\* parseFile(svelteFile, language): the tag info, with `language` put in for
\* a block that declares none.
parseFile(svelteFile, language) ==
    { IF info.lang = UNDEF
      THEN [info EXCEPT !.lang = language, !.alias = language]
      ELSE info
      : info \in getTagInfo(svelteFile) }

-----------------------------------------------------------------------------
(* prepareContent *)

RECURSIVE MinOf(_)
MinOf(lines) ==
    IF Len(lines) = 1 THEN lines[1]
    ELSE LET m == MinOf(Tail(lines))
         IN  IF lines[1] < m THEN lines[1] ELSE m

\* strip-indent: the indentation all lines share is taken off every line.
stripIndent(content) ==
    IF content.lines = << >> THEN content
    ELSE LET m == MinOf(content.lines)
         IN  [content EXCEPT
                !.lines = [i \in 1..Len(content.lines) |-> content.lines[i] - m]]

\* prepareContent({options, content}): strips the common indentation, and
\* puts the prelude in front when the merged options ask for one.
prepareContent(options, content) ==
    LET stripped == stripIndent(content)
    IN  IF options.kind = "object" /\ Has(options.bag, "prependData")
        THEN [stripped EXCEPT !.prepended = TRUE]
        ELSE stripped

-----------------------------------------------------------------------------
(* transform *)

\* The names ./transformers/<name> resolves for; any other import rejects.
TransformerModules ==
    {"scss", "typescript", "stylus", "babel", "postcss", "globalStyle", "replace",
     "pug"}

NoMap == << >>

\* What a stage hands back, or that it rejected.
Processed(code, map, dependencies, diagnostics) ==
    [ok |-> TRUE, error |-> "", code |-> code, map |-> map,
     dependencies |-> dependencies, diagnostics |-> diagnostics]

NoCode == Text(<< >>)

Rejected(error) ==
    [ok |-> FALSE, error |-> error, code |-> NoCode, map |-> NoMap,
     dependencies |-> NoList, diagnostics |-> NoList]

\* One entry of the record of what was loaded and called: a module import, a
\* call of a module's transformer or a call of a user's function, with the
\* arguments of the call and what it answered.
Call(op, name, args, options, answer) ==
    [op |-> op, name |-> name, content |-> args.content, map |-> args.map,
     attributes |-> args.attributes, options |-> options, answer |-> answer]

Import(name) ==
    [op |-> "import", name |-> name, content |-> NoCode, map |-> NoMap,
     attributes |-> [lang |-> NONE, src |-> NONE, global |-> FALSE],
     options |-> Absent, answer |-> Rejected("")]

\* What a transformer (a built-in module's, or a user's function) may answer
\* for this content: it rewrites the code, and may or may not give a map,
\* dependencies and diagnostics; one of its dependencies may be the file a
\* src attribute names; or it rejects.
Answers(tag, args) ==
    LET code == [args.content EXCEPT !.by = Append(@, tag)]
    IN  { Processed(code, NoMap, NoList, NoList),
          Processed(code, tag,
                    Arr(<< << "src", args.attributes.src >>, tag >>),
                    Arr(<< tag >>)),
          Rejected("TransformError") }

\* options({content, map, filename, attributes})
CallFunction(options, args) ==
    { [out |-> r,
       calls |-> << Call("function", options.fn, args, options, r) >>]
      : r \in Answers(<< "function", options.fn >>, args) }

\* transformer({content, filename, map, attributes, options}) of the module
CallTransformer(name, options, args) ==
    { [out |-> r,
       calls |-> << Import(name),
                    Call("transformer", name, args,
                         IF options.kind = "true" THEN Absent ELSE options,
                         r) >>]
      : r \in Answers(<< "transformer", name >>, args) }

\* transform(name, options, args) with the module loaded before the options
\* are looked at.
transformImportFirst(name, options, args) ==
    IF name \notin TransformerModules
    THEN { [out |-> Rejected("MODULE_NOT_FOUND"), calls |-> << Import(name) >>] }
    ELSE IF options.kind = "false"
    THEN { [out |-> Processed(args.content, NoMap, NoList, NoList),
            calls |-> << Import(name) >>] }
    ELSE IF options.kind = "function"
    THEN { [t EXCEPT !.calls = << Import(name) >> \o @]
           : t \in CallFunction(options, args) }
    ELSE CallTransformer(name, options, args)

\* transform(name, options, args) that gives the content back when the module
\* cannot be loaded.
transformSwallow(name, options, args) ==
    IF options.kind = "false"
    THEN { [out |-> Processed(args.content, NoMap, NoList, NoList),
            calls |-> << >>] }
    ELSE IF options.kind = "function"
    THEN CallFunction(options, args)
    ELSE IF name \notin TransformerModules
    THEN { [out |-> Processed(args.content, NoMap, NoList, NoList),
            calls |-> << Import(name) >>] }
    ELSE CallTransformer(name, options, args)

\* transform(name, options, args): every way the call may end, each with the
\* loads and calls it made.
transform(name, options, args) ==
    IF options.kind = "false"
    THEN { [out |-> Processed(args.content, NoMap, NoList, NoList),
            calls |-> << >>] }
    ELSE IF options.kind = "function"
    THEN CallFunction(options, args)
    ELSE IF name \notin TransformerModules
    THEN { [out |-> Rejected("MODULE_NOT_FOUND"), calls |-> << Import(name) >>] }
    ELSE CallTransformer(name, options, args)

Args(content, map, attributes) ==
    [content |-> content, map |-> map, attributes |-> attributes]

-----------------------------------------------------------------------------
(* sveltePreprocess: getTransformerTo, script, style *)

defaultLanguages ==
    [markup |-> "html", style |-> "css", script |-> "javascript"]

\* lang and alias left as the tag info gave them.
ResolvedNoDefault(type, info) == [lang |-> info.lang, alias |-> info.alias]

\* lang and alias after the default is put in for a block that names none.
Resolved(type, info) ==
    IF info.lang = UNDEF \/ info.alias = UNDEF
    THEN [lang  |-> getLanguageFromAlias(defaultLanguages[type]),
          alias |-> defaultLanguages[type]]
    ELSE [lang |-> info.lang, alias |-> info.alias]

Preserved(la) == la.lang \in preserve \/ la.alias \in preserve

\* {...transformed, dependencies: concat(dependencies, transformed.dependencies)}
MergePrimaryDropTag(dependencies, transformed) ==
    [transformed EXCEPT !.dependencies = concat(NoList, transformed.dependencies)]

MergePrimary(dependencies, transformed) ==
    [transformed EXCEPT
        !.dependencies = concat(Arr(dependencies), transformed.dependencies)]

\* getTransformerTo(type, targetLanguage)(svelteFile) with the target-language
\* test after the dispatch.
getTransformerToAlwaysDispatch(type, targetLanguage, svelteFile) ==
    UNION { IF ~info.ok
            THEN { [out |-> Rejected("ENOENT"), calls |-> << >>] }
            ELSE LET la == Resolved(type, info)
                     transformerOptions == GetTransformerOptions(la.lang, la.alias)
                     content == prepareContent(transformerOptions, info.content)
                 IN  IF Preserved(la)
                     THEN { [out |-> Processed(info.content, NoMap, NoList, NoList),
                             calls |-> << >>] }
                     ELSE { IF t.out.ok
                            THEN [t EXCEPT
                                    !.out = MergePrimary(info.dependencies, t.out)]
                            ELSE t
                            : t \in transform(la.lang, transformerOptions,
                                        Args(content, NoMap,
                                             svelteFile.attributes)) }
            : info \in getTagInfo(svelteFile) }

\* getTransformerTo(type, targetLanguage)(svelteFile): every way the primary
\* stage may end.
getTransformerTo(type, targetLanguage, svelteFile) ==
    UNION { IF ~info.ok
            THEN { [out |-> Rejected("ENOENT"), calls |-> << >>] }
            ELSE LET la == Resolved(type, info)
                     transformerOptions == GetTransformerOptions(la.lang, la.alias)
                     content == prepareContent(transformerOptions, info.content)
                 IN  IF Preserved(la)
                     THEN { [out |-> Processed(info.content, NoMap, NoList, NoList),
                             calls |-> << >>] }
                     ELSE IF la.lang = targetLanguage
                     THEN { [out |-> Processed(content, NoMap,
                                        Arr(info.dependencies), NoList),
                             calls |-> << >>] }
                     ELSE { IF t.out.ok
                            THEN [t EXCEPT
                                    !.out = MergePrimary(info.dependencies, t.out)]
                            ELSE t
                            : t \in transform(la.lang, transformerOptions,
                                        Args(content, NoMap,
                                             svelteFile.attributes)) }
            : info \in getTagInfo(svelteFile) }

\* A config the code's `if (transformers.x)` takes as set.
Truthy(opt) == opt.kind \notin {UNDEF, "false"}

\* What script and style put together after a later stage resolved.
AfterBabelKeepMap(r, transformed) ==
    [r EXCEPT !.code = transformed.code,
              !.map = IF transformed.map = NoMap THEN r.map ELSE transformed.map,
              !.dependencies = concat(r.dependencies, transformed.dependencies),
              !.diagnostics = concat(r.diagnostics, transformed.diagnostics)]

AfterBabel(r, transformed) ==
    [r EXCEPT !.code = transformed.code,
              !.map = transformed.map,
              !.dependencies = concat(r.dependencies, transformed.dependencies),
              !.diagnostics = concat(r.diagnostics, transformed.diagnostics)]

AfterPostcssOverwrite(r, transformed) ==
    [r EXCEPT !.code = transformed.code,
              !.map = transformed.map,
              !.dependencies = concat(NoList, transformed.dependencies)]

AfterPostcss(r, transformed) ==
    [r EXCEPT !.code = transformed.code,
              !.map = transformed.map,
              !.dependencies = concat(r.dependencies, transformed.dependencies)]

AfterGlobalStyle(r, transformed) ==
    [r EXCEPT !.code = transformed.code, !.map = transformed.map]

-----------------------------------------------------------------------------
(* The blocks and configurations explored *)

\* The inline contents a block may carry (the indentation of its lines).
Contents == { Text(<< 0 >>), Text(<< 2, 3 >>) }

\* "futuristic" is a token no alias is registered for.
ScriptLangs == {NONE, "typescript", "cst", "futuristic"}
StyleLangs  == {NONE, "scss", "sass", "cst"}

\* The external files a src attribute may name, by extension: one in a
\* language to transform, one in the target language.
SrcFiles(type) == IF type = "script" THEN {"ts", "js"} ELSE {"scss", "css"}

\* The svelteFile of a block: an inline block carries its own content, a block
\* with src is empty and has its content in the external file.
Blocks(type) ==
    { [content |-> c,
       attributes |-> [lang |-> l, src |-> s, global |-> g]]
      : << c, s >> \in (Contents \X {NONE}) \cup ({Text(<< >>)} \X SrcFiles(type)),
        l \in (IF type = "script" THEN ScriptLangs ELSE StyleLangs),
        g \in (IF type = "script" THEN {FALSE} ELSE BOOLEAN) }

NoBlock ==
    [content |-> NoCode,
     attributes |-> [lang |-> NONE, src |-> NONE, global |-> FALSE]]

NoResult == Processed(NoCode, NoMap, NoList, NoList)

\* The config keys explored, and what the user may give under one.
ConfigNames ==
    {"javascript", "typescript", "babel", "css", "scss", "sass", "postcss",
     "customLanguage"}

UserBag == [EmptyBag EXCEPT !["prependData"] = "true"]

Given(name) == {OptFalse, OptTrue, OptFn(name), OptObj(UserBag)}

\* The configs with at most two keys given.
Configs ==
    { [n \in ConfigNames |->
          IF n = a THEN va ELSE IF n = b THEN vb ELSE Absent]
      : << a, va, b, vb >> \in
          { << a, va, b, vb >> \in
                ConfigNames \X (UNION {Given(n) : n \in ConfigNames} \cup {Absent})
                \X ConfigNames
                \X (UNION {Given(n) : n \in ConfigNames} \cup {Absent})
            : /\ va \in Given(a) \cup {Absent}
              /\ vb \in Given(b) \cup {Absent}
              /\ a # b } }

Preserves == { {}, {"scss"}, {"ts"} }

NoOptArgs == [name |-> UNDEF, alias |-> UNDEF]

\* No document is being processed.
NoMatch ==
    [found |-> FALSE, index |-> 0, length |-> 0, attributesStr |-> << >>,
     templateCode |-> [defined |-> FALSE, text |-> << >>]]

markupVars ==
    << onBefore, markupTagName, document, markupContent, templateMatch >>

\* The aliases autoPreprocess may keep a bag for, and the empty cache: an
\* entry names the object kept (0: none) and holds its contents.
CacheAliases == {"scss", "sass", "typescript", "ts", "pug"}

NoEntry == [ref |-> 0, bag |-> EmptyBag]

EmptyCache == [a \in CacheAliases |-> NoEntry]

\* The blocks processed at once, and a block not being processed.
CacheBlocks == {"first", "second"}

NotInFlight ==
    [pc |-> "idle", lang |-> NONE, alias |-> NONE, options |-> Absent,
     ref |-> 0]

cacheVars == << optionsCache, objects, optId, inflight >>

NoCacheYet ==
    /\ optionsCache = EmptyCache
    /\ objects = 0
    /\ optId = 0
    /\ inflight = [b \in CacheBlocks |-> NotInFlight]

\* The compiler option keys followed: the four the transformer fixes, and one
\* it leaves to the user and the tsconfig file.
TsFixedKeys == {"target", "strict", "module", "moduleResolution"}

TsKeys == TsFixedKeys \cup {"noEmit"}

\* A compilerOptions object, every key unset: {}.
EmptyJson == [k \in TsKeys |-> UNSET]

\* A compilerOptions property that may be missing.
NoJson == [defined |-> FALSE, json |-> EmptyJson]

NoTsEnv == [found |-> FALSE, readError |-> FALSE, config |-> NoJson]

NoTsArgs == [tsconfigPath |-> FALSE, compilerOptions |-> NoJson]

NotRun == [pc |-> "idle", json |-> EmptyJson, log |-> << >>]

tsVars == << tsEnv, tsArgs, tsRun >>

NoTsYet ==
    /\ tsEnv = NoTsEnv
    /\ tsArgs = NoTsArgs
    /\ tsRun = NotRun

NoMarkupYet ==
    /\ onBefore = FALSE
    /\ markupTagName = "template"
    /\ document = << >>
    /\ markupContent = << >>
    /\ templateMatch = NoMatch

-----------------------------------------------------------------------------
(* The pipeline of one block *)

Init ==
    /\ transformers \in Configs
    /\ preserve \in Preserves
    /\ sourceMap = FALSE
    /\ postcssInstalled \in BOOLEAN
    /\ pc = "idle"
    /\ kind = NONE
    /\ block = NoBlock
    /\ result = NoResult
    /\ calls = << >>
    /\ optArgs = NoOptArgs
    /\ optOut = Absent
    /\ attrStr = << >>
    /\ attrOut = {}
    /\ processorOptions = Absent
    /\ NoMarkupYet
    /\ NoCacheYet
    /\ NoTsYet

config == << transformers, preserve, sourceMap, postcssInstalled >>
apart  == << optArgs, optOut, attrStr, attrOut, processorOptions, markupVars,
             cacheVars, tsVars >>

\* The host calls script({content, attributes, filename}).
InvokeScript ==
    /\ pc = "idle"
    /\ \E b \in Blocks("script") : block' = b
    /\ kind' = "script"
    /\ pc' = "primary"
    /\ result' = NoResult
    /\ calls' = << >>
    /\ UNCHANGED << config, apart >>

\* The host calls style({content, attributes, filename}).
InvokeStyle ==
    /\ pc = "idle"
    /\ \E b \in Blocks("style") : block' = b
    /\ kind' = "style"
    /\ pc' = "primary"
    /\ result' = NoResult
    /\ calls' = << >>
    /\ UNCHANGED << config, apart >>

\* A stage ended, and a stage that rejected is passed over: the pipeline goes
\* on with what it had.
SettleSwallow(t, merged, next) ==
    /\ calls' = calls \o t.calls
    /\ pc' = next
    /\ result' = IF t.out.ok THEN merged ELSE result

\* A stage ended: its calls are recorded, and the pipeline goes on or rejects.
Settle(t, merged, next) ==
    /\ calls' = calls \o t.calls
    /\ IF t.out.ok
       THEN result' = merged /\ pc' = next
       ELSE result' = t.out /\ pc' = "rejected"

\* await scriptTransformer({content, attributes, filename})
ScriptPrimary ==
    /\ pc = "primary" /\ kind = "script"
    /\ \E t \in getTransformerTo("script", "javascript", block) :
          Settle(t, t.out, "babel")
    /\ UNCHANGED << config, apart, kind, block >>

\* if (transformers.babel) { await transform('babel', ...) }; return
ScriptBabel ==
    /\ pc = "babel" /\ kind = "script"
    /\ IF Truthy(Lookup("babel"))
       THEN \E t \in transform("babel", GetTransformerOptions("babel", UNDEF),
                        Args(result.code, result.map, block.attributes)) :
               Settle(t, AfterBabel(result, t.out), "done")
       ELSE pc' = "done" /\ UNCHANGED << result, calls >>
    /\ UNCHANGED << config, apart, kind, block >>

\* await cssTransformer({content, attributes, filename})
StylePrimary ==
    /\ pc = "primary" /\ kind = "style"
    /\ \E t \in getTransformerTo("style", "css", block) :
          Settle(t, t.out, "postcss")
    /\ UNCHANGED << config, apart, kind, block >>

\* if (await hasDepInstalled('postcss')) { if (transformers.postcss) {...} }
StylePostcss ==
    /\ pc = "postcss" /\ kind = "style"
    /\ IF ~postcssInstalled
       THEN pc' = "done" /\ UNCHANGED << result, calls >>
       ELSE IF Truthy(Lookup("postcss"))
       THEN \E t \in transform("postcss",
                        GetTransformerOptions("postcss",
                            getLanguage(block.attributes).alias),
                        Args(result.code, result.map, block.attributes)) :
               Settle(t, AfterPostcss(result, t.out), "globalStyle")
       ELSE pc' = "globalStyle" /\ UNCHANGED << result, calls >>
    /\ UNCHANGED << config, apart, kind, block >>

\* await transform('globalStyle', getTransformerOptions('globalStyle'), ...)
StyleGlobalStyle ==
    /\ pc = "globalStyle" /\ kind = "style"
    /\ \E t \in transform("globalStyle",
                    GetTransformerOptions("globalStyle", UNDEF),
                    Args(result.code, result.map, block.attributes)) :
          Settle(t, AfterGlobalStyle(result, t.out), "done")
    /\ UNCHANGED << config, apart, kind, block >>

\* The promise settled and the host took the outcome.
Return ==
    /\ pc \in {"done", "rejected"}
    /\ pc' = "idle"
    /\ kind' = NONE
    /\ block' = NoBlock
    /\ result' = NoResult
    /\ calls' = << >>
    /\ UNCHANGED << config, apart >>

Next ==
    \/ InvokeScript
    \/ InvokeStyle
    \/ ScriptPrimary
    \/ ScriptBabel
    \/ StylePrimary
    \/ StylePostcss
    \/ StyleGlobalStyle
    \/ Return

Spec == Init /\ [][Next]_vars

-----------------------------------------------------------------------------
(* getTransformerOptions called on its own *)

\* What the user may give under one key: any bag, or one of the other kinds.
AnyGiven(name) ==
    {Absent, OptFalse, OptTrue, OptFn(name)} \cup {OptObj(b) : b \in Bags}

OptionConfigs ==
    { [n \in {"scss", "sass"} |-> IF n = "scss" THEN vl ELSE va]
      : vl \in AnyGiven("scss"), va \in AnyGiven("sass") }

\* The (name, alias) pairs the entry points call it with.
OptionPairs ==
    { [name |-> "scss", alias |-> "sass"],
      [name |-> "scss", alias |-> "scss"],
      [name |-> "postcss", alias |-> "sass"],
      [name |-> "postcss", alias |-> "scss"],
      [name |-> "babel", alias |-> UNDEF] }

InitOptions ==
    /\ transformers \in OptionConfigs
    /\ preserve = {}
    /\ sourceMap \in BOOLEAN
    /\ postcssInstalled = FALSE
    /\ pc = "options"
    /\ kind = NONE
    /\ block = NoBlock
    /\ result = NoResult
    /\ calls = << >>
    /\ optArgs = NoOptArgs
    /\ optOut = Absent
    /\ attrStr = << >>
    /\ attrOut = {}
    /\ processorOptions = Absent
    /\ NoMarkupYet
    /\ NoCacheYet
    /\ NoTsYet

\* The most objects getTransformerOptions is followed through making.
MaxObjects == 3

\* A call of getTransformerOptions(name, alias).  A merged result is an object
\* made by this call (const opts = {}); a function or false is the user's own.
CallGetTransformerOptions ==
    /\ pc = "options"
    /\ \E p \in OptionPairs :
          LET out == GetTransformerOptions(p.name, p.alias)
          IN  /\ optArgs' = p
              /\ optOut' = out
              /\ IF out.kind = "object"
                 THEN /\ objects < MaxObjects
                      /\ objects' = objects + 1
                      /\ optId' = objects + 1
                 ELSE /\ objects' = objects
                      /\ optId' = 0
    /\ UNCHANGED << config, pc, kind, block, result, calls, attrStr, attrOut,
                    processorOptions, markupVars, optionsCache, inflight,
                    tsVars >>

NextOptions == CallGetTransformerOptions

SpecOptions == InitOptions /\ [][NextOptions]_vars

-----------------------------------------------------------------------------
(* autoPreprocess.markup: the wrapper tag's attribute string *)

SPACE == " "
QUOTE == "\""
EQUALS == "="

\* attributesStr.split(/\s+/).filter(Boolean): the runs of non-space
\* characters, in order.
RECURSIVE SplitSpaces(_, _, _)
SplitSpaces(str, cur, acc) ==
    IF str = << >>
    THEN IF cur = << >> THEN acc ELSE Append(acc, cur)
    ELSE IF Head(str) = SPACE
    THEN SplitSpaces(Tail(str), << >>,
                     IF cur = << >> THEN acc ELSE Append(acc, cur))
    ELSE SplitSpaces(Tail(str), Append(cur, Head(str)), acc)

\* attr.split('='): the pieces between the equals signs.
RECURSIVE SplitEquals(_, _, _)
SplitEquals(str, cur, acc) ==
    IF str = << >> THEN Append(acc, cur)
    ELSE IF Head(str) = EQUALS
    THEN SplitEquals(Tail(str), << >>, Append(acc, cur))
    ELSE SplitEquals(Tail(str), Append(cur, Head(str)), acc)

\* value.replace(/['"]/g, '')
IsNotQuote(c) == c \notin {QUOTE, "'"}
StripQuotes(value) == SelectSeq(value, IsNotQuote)

\* An attribute's value: true, or a string.
AttrTrue     == << "true", << >> >>
AttrValue(v) == << "string", v >>

\* acc[name] = value
SetAttr(acc, name, value) ==
    { p \in acc : p[1] # name } \cup { << name, value >> }

\* The reducer: const [name, value] = attr.split('=');
\* acc[name] = value ? value.replace(/['"]/g, '') : true
RECURSIVE ReduceAttrs(_, _)
ReduceAttrs(tokens, acc) ==
    IF tokens = << >> THEN acc
    ELSE LET parts == SplitEquals(Head(tokens), << >>, << >>)
             name  == parts[1]
             value == IF Len(parts) > 1 THEN parts[2] ELSE << >>
         IN  ReduceAttrs(Tail(tokens),
                 SetAttr(acc, name,
                         IF value # << >>
                         THEN AttrValue(StripQuotes(value))
                         ELSE AttrTrue))

\* The attribute bag autoPreprocess.markup builds from attributesStr.
ParseAttributes(str) == ReduceAttrs(SplitSpaces(str, << >>, << >>), {})

\* The attribute strings explored: all up to MaxAttrLen characters of a small
\* alphabet, and the string  class="a b" disabled .
MaxAttrLen == 6

AttrChars == {"a", EQUALS, QUOTE, SPACE}

ScenarioStr ==
    << "c", "l", "a", "s", "s", EQUALS, QUOTE, "a", SPACE, "b", QUOTE, SPACE,
       "d", "i", "s", "a", "b", "l", "e", "d" >>

AttrStrings ==
    UNION { [1..n -> AttrChars] : n \in 0..MaxAttrLen } \cup {ScenarioStr}

InitAttr ==
    /\ transformers \in {[n \in ConfigNames |-> Absent]}
    /\ preserve = {}
    /\ sourceMap = FALSE
    /\ postcssInstalled = FALSE
    /\ pc = "attributes"
    /\ kind = NONE
    /\ block = NoBlock
    /\ result = NoResult
    /\ calls = << >>
    /\ optArgs = NoOptArgs
    /\ optOut = Absent
    /\ attrStr \in AttrStrings
    /\ attrOut = {}
    /\ processorOptions = Absent
    /\ NoMarkupYet
    /\ NoCacheYet
    /\ NoTsYet

\* const attributes = attributesStr.split(/\s+/).filter(Boolean).reduce(...)
ParseWrapperAttributes ==
    /\ pc = "attributes"
    /\ attrOut' = ParseAttributes(attrStr)
    /\ pc' = "parsed"
    /\ UNCHANGED << config, kind, block, result, calls, optArgs, optOut, attrStr,
                    processorOptions, markupVars, cacheVars, tsVars >>

NextAttr == ParseWrapperAttributes

SpecAttr == InitAttr /\ [][NextAttr]_vars

-----------------------------------------------------------------------------
(* autoPreprocess: the markup entry point *)

LT    == "<"
GT    == ">"
SLASH == "/"

\* The tag name written in another letter case, and toLocaleLowerCase of a word.
toLocaleLowerCase(word) ==
    IF word \in {"Template", "TEMPLATE"} THEN "template" ELSE word

\* A text the code may hold as undefined.
Undefined     == [defined |-> FALSE, text |-> << >>]
Defined(text) == [defined |-> TRUE, text |-> text]

\* What string concatenation makes of it.
Stringify(mt) == IF mt.defined THEN mt.text ELSE << "undefined" >>

\* <\/name> stands at position q of str.
ClosesAt(str, name, q) ==
    /\ q + 3 <= Len(str)
    /\ str[q] = LT /\ str[q + 1] = SLASH /\ str[q + 2] = name /\ str[q + 3] = GT

\* The first alternative, >([\s\S]*)<\/name>, matches from position p.
OpenEnd(str, name, p) ==
    /\ p <= Len(str)
    /\ str[p] = GT
    /\ \E q \in (p + 1)..Len(str) : ClosesAt(str, name, q)

\* The second alternative, />, matches at position p.
SelfClose(str, p) ==
    /\ p + 1 <= Len(str)
    /\ str[p] = SLASH /\ str[p + 1] = GT

\* The pattern matches with <name at position i.
StartsAt(str, name, i) ==
    /\ i + 1 <= Len(str)
    /\ str[i] = LT /\ str[i + 1] = name
    /\ \E p \in (i + 2)..Len(str) : OpenEnd(str, name, p) \/ SelfClose(str, p)

\* content.match(markupPattern) for the pattern
\*   <name([\s\S]*?)(?:>([\s\S]*)<\/name>|/>)
\* the leftmost start, the shortest attribute string, the longest inner text;
\* the second group is undefined when the second alternative matched.  The
\* index is counted from 1.
Match(str, name) ==
    IF \E i \in 1..Len(str) : StartsAt(str, name, i)
    THEN LET i == CHOOSE i \in 1..Len(str) :
                    /\ StartsAt(str, name, i)
                    /\ \A j \in 1..(i - 1) : ~StartsAt(str, name, j)
             Ends(p) == OpenEnd(str, name, p) \/ SelfClose(str, p)
             p == CHOOSE p \in (i + 2)..Len(str) :
                    /\ Ends(p)
                    /\ \A r \in (i + 2)..(p - 1) : ~Ends(r)
         IN  IF OpenEnd(str, name, p)
             THEN LET q == CHOOSE q \in (p + 1)..Len(str) :
                             /\ ClosesAt(str, name, q)
                             /\ \A r \in (q + 1)..Len(str) :
                                   ~ClosesAt(str, name, r)
                  IN  [found |-> TRUE, index |-> i, length |-> q + 4 - i,
                       attributesStr |-> SubSeq(str, i + 2, p - 1),
                       templateCode |-> Defined(SubSeq(str, p + 1, q - 1))]
             ELSE [found |-> TRUE, index |-> i, length |-> p + 2 - i,
                   attributesStr |-> SubSeq(str, i + 2, p - 1),
                   templateCode |-> Undefined]
    ELSE NoMatch

\* content.slice(0, index) + code + content.slice(index + fullMatch.length),
\* put in the wrong place: before the match instead of in its stead.
SpliceBefore(str, m, code) ==
    SubSeq(str, 1, m.index - 1) \o Stringify(code)
    \o SubSeq(str, m.index, Len(str))

\* content.slice(0, index) + code + content.slice(index + fullMatch.length)
Splice(str, m, code) ==
    SubSeq(str, 1, m.index - 1) \o Stringify(code)
    \o SubSeq(str, m.index + m.length, Len(str))

\* The value of an attribute of the parsed bag, NONE when it has none.
AttributeOf(attributes, name) ==
    IF \E p \in attributes : p[1] = << name >> /\ p[2][1] = "string"
                              /\ Len(p[2][2]) = 1
    THEN (CHOOSE p \in attributes : p[1] = << name >>)[2][2][1]
    ELSE NONE

\* The svelteFile markup hands to the markup transformer.
MarkupFile(templateCode, attributes) ==
    [content |-> templateCode,
     attributes |-> [lang |-> AttributeOf(attributes, "lang"),
                     src |-> NONE, global |-> FALSE]]

\* autoPreprocess.getTransformerOptions(lang, alias) as computed when the
\* options cache holds nothing for the alias.
autoGetTransformerOptions(lang, alias) ==
    LET langOpts  == Lookup(lang)
        aliasOpts == Lookup(alias)
        own   == IF langOpts.kind = "object" THEN langOpts.bag ELSE EmptyBag
        over  == IF lang # alias
                 THEN Assign(Assign(own, ALIAS_OPTION_OVERRIDES(alias)),
                             IF aliasOpts.kind = "object" THEN aliasOpts.bag
                             ELSE EmptyBag)
                 ELSE own
    IN  IF aliasOpts.kind = "function" THEN aliasOpts
        ELSE IF langOpts.kind = "function" THEN langOpts
        ELSE OptObj(over)

\* strip-indent on a one-line text: the leading white space goes.
RECURSIVE StripIndentText(_)
StripIndentText(text) ==
    IF text # << >> /\ Head(text) = SPACE
    THEN StripIndentText(Tail(text))
    ELSE text

\* What a transformer may answer for a text: some other text, with or without
\* map and dependencies, or a rejection.
MarkupAnswers(tag) ==
    { Processed(Defined(<< "out" >>), NoMap, NoList, NoList),
      Processed(Defined(<< LT, "p", GT >>), tag, Arr(<< tag >>), NoList),
      Rejected("TransformError") }

\* The key a bag is kept under, and the language in its place.
CacheKeyLang(lang, alias) == lang

CacheKey(lang, alias) == alias

\* autoPreprocess.getTransformerOptions(lang, alias) with its cache: what it
\* returns, which object that is (0: not an object of its own making), and
\* the cache and the count of objects after the call.
autoGetTransformerOptionsCached(cache, count, lang, alias) ==
    LET key   == CacheKey(lang, alias)
        fresh == autoGetTransformerOptions(lang, alias)
    IN  IF fresh.kind = "function"
        THEN [out |-> fresh, ref |-> 0, cache |-> cache, count |-> count]
        ELSE IF cache[key].ref # 0
        THEN [out |-> OptObj(cache[key].bag), ref |-> cache[key].ref,
              cache |-> cache, count |-> count]
        ELSE [out |-> fresh, ref |-> count + 1,
              cache |-> [cache EXCEPT
                            ![key] = [ref |-> count + 1, bag |-> fresh.bag]],
              count |-> count + 1]

\* runTransformer(name, options, {content, filename})
runTransformer(name, options, text) ==
    LET args == Args(text, NoMap, NoBlock.attributes)
    IN  IF options.kind = "function"
        THEN { [out |-> r,
                calls |-> << Call("function", options.fn, args, options, r) >>]
               : r \in MarkupAnswers(<< "function", options.fn >>) }
        ELSE IF name \notin TransformerModules
        THEN { [out |-> Rejected("MODULE_NOT_FOUND"),
                calls |-> << Import(name) >>] }
        ELSE { [out |-> r,
                calls |-> << Import(name),
                             Call("transformer", name, args, options, r) >>]
               : r \in MarkupAnswers(<< "transformer", name >>) }

\* markupTransformer = getTransformerTo('html') of autoPreprocess: every way
\* it may end.  A preserved language makes it return undefined, which markup
\* cannot take apart.
markupTransformer(svelteFile) ==
    LET Early(out) == [out |-> out, calls |-> << >>,
                       cache |-> optionsCache, count |-> objects]
    IN
    UNION { IF ~info.ok
            THEN { Early(Rejected("ENOENT")) }
            ELSE IF info.lang \in preserve \/ info.alias \in preserve
            THEN { Early(Rejected("TypeError")) }
            ELSE IF info.lang = "html"
            THEN { Early(Processed(info.content, NoMap,
                                   Arr(info.dependencies), NoList)) }
            ELSE IF \/ Lookup(info.lang).kind = "false"
                    \/ Lookup(info.alias).kind = "false"
            THEN { Early(Rejected("UnsupportedLanguageError")) }
            ELSE IF ~info.content.defined
            THEN { Early(Rejected("TypeError")) }
            ELSE LET got == autoGetTransformerOptionsCached(
                                optionsCache, objects, info.lang, info.alias)
                 IN  { [out |-> IF t.out.ok
                                THEN [t.out EXCEPT !.dependencies =
                                         concat(Arr(info.dependencies),
                                                t.out.dependencies)]
                                ELSE t.out,
                        calls |-> t.calls,
                        cache |-> got.cache, count |-> got.count]
                       : t \in runTransformer(info.lang, got.out,
                                     StripIndentText(info.content.text)) }
            : info \in parseFile(svelteFile, "html") }

\* The documents explored: some text, a wrapper tag or none, some text.  The
\* tag is written template or Template, with or without attributes, with an
\* inner text or self-closing; the text after it may hold a second closing tag.
TagNames == {"template", "Template"}

AttributeStrings ==
    { << >>,
      << SPACE, "lang", EQUALS, QUOTE, "pug", QUOTE >>,
      << SPACE, "a", SPACE >> }

InnerTexts == { << >>, << SPACE, "x" >> }

Wrappers ==
    { << LT, n >> \o a \o << GT >> \o t \o << LT, SLASH, n, GT >>
      : n \in TagNames, a \in AttributeStrings, t \in InnerTexts }
    \cup { << LT, n >> \o a \o << SLASH, GT >>
           : n \in TagNames, a \in AttributeStrings }
    \cup { << >> }

Befores == { << >>, << LT, "div", GT >> }
Afters  == { << >>, << "y" >>, << "y", LT, SLASH, "template", GT >> }

Documents == { b \o w \o a : b \in Befores, w \in Wrappers, a \in Afters }

\* What onBefore or the replace stage may make of a document.
Rewritten ==
    { << "r" >>,
      << "r", LT, "template", GT, "z", LT, SLASH, "template", GT >> }

\* The markup configurations: the tag name as given, onBefore, preserve, and
\* what is given under replace and pug.
MarkupConfigs ==
    { [n \in {"replace", "pug"} |-> IF n = "replace" THEN r ELSE p]
      : r \in {Absent, OptTrue},
        p \in {Absent, OptFalse, OptFn("pug")} }

InitMarkup ==
    /\ transformers \in MarkupConfigs
    /\ preserve \in { {}, {"pug"} }
    /\ sourceMap = FALSE
    /\ postcssInstalled = FALSE
    /\ pc = "idle"
    /\ kind = NONE
    /\ block = NoBlock
    /\ result = NoResult
    /\ calls = << >>
    /\ optArgs = NoOptArgs
    /\ optOut = Absent
    /\ attrStr = << >>
    /\ attrOut = {}
    /\ processorOptions = Absent
    /\ onBefore \in BOOLEAN
    /\ markupTagName \in TagNames
    /\ document = << >>
    /\ markupContent = << >>
    /\ templateMatch = NoMatch
    /\ NoCacheYet
    /\ NoTsYet

aside == << config, kind, block, optArgs, optOut, processorOptions, onBefore,
            markupTagName, cacheVars, tsVars >>

\* The host calls markup({content, filename}).
InvokeMarkup ==
    /\ pc = "idle"
    /\ \E d \in Documents : document' = d /\ markupContent' = d
    /\ pc' = "onBefore"
    /\ UNCHANGED << aside, result, calls, attrStr, attrOut, templateMatch >>

\* if (isFn(onBefore)) content = await onBefore({content, filename})
MarkupOnBefore ==
    /\ pc = "onBefore"
    /\ IF onBefore
       THEN \/ /\ \E d \in Rewritten : markupContent' = d
               /\ pc' = "replace"
               /\ UNCHANGED result
            \/ /\ result' = Rejected("OnBeforeError")
               /\ pc' = "rejected"
               /\ UNCHANGED markupContent
       ELSE pc' = "replace" /\ UNCHANGED << markupContent, result >>
    /\ UNCHANGED << aside, document, calls, attrStr, attrOut, templateMatch >>

\* if (transformers.replace) content = (await runTransformer('replace', ...)).code
MarkupReplace ==
    /\ pc = "replace"
    /\ IF Truthy(Lookup("replace"))
       THEN \E r \in { Processed(d, NoMap, NoList, NoList) : d \in Rewritten }
                     \cup { Rejected("TransformError") } :
               /\ calls' = << Import("replace"),
                              Call("transformer", "replace",
                                   Args(markupContent, NoMap, NoBlock.attributes),
                                   Lookup("replace"), r) >>
               /\ IF r.ok
                  THEN /\ markupContent' = r.code
                       /\ pc' = "match"
                       /\ UNCHANGED result
                  ELSE /\ result' = r
                       /\ pc' = "rejected"
                       /\ UNCHANGED markupContent
       ELSE pc' = "match" /\ UNCHANGED << markupContent, result, calls >>
    /\ UNCHANGED << aside, document, attrStr, attrOut, templateMatch >>

\* The text the pattern is matched against and the splice is made in.
MatchSubjectOriginal == document

MatchSubject == markupContent

\* if (!templateMatch) return {code: content}, with the content dropped.
UnmatchedEmpty(str) == Processed(<< >>, NoMap, NoList, NoList)

\* if (!templateMatch) return {code: content}
Unmatched(str) == Processed(str, NoMap, NoList, NoList)

\* const templateMatch = content.match(markupPattern); without a match the
\* content is returned; with one, the attribute string is parsed.
MarkupMatch ==
    /\ pc = "match"
    /\ LET m == Match(MatchSubject, toLocaleLowerCase(markupTagName))
       IN  /\ templateMatch' = m
           /\ IF m.found
              THEN /\ attrStr' = m.attributesStr
                   /\ attrOut' = ParseAttributes(m.attributesStr)
                   /\ pc' = "transform"
                   /\ UNCHANGED result
              ELSE /\ result' = Unmatched(MatchSubject)
                   /\ pc' = "done"
                   /\ UNCHANGED << attrStr, attrOut >>
    /\ UNCHANGED << aside, document, markupContent, calls >>

\* let {code, map, dependencies} = await markupTransformer({...}); the code
\* is spliced into the content.
MarkupTransform ==
    /\ pc = "transform"
    /\ \E t \in markupTransformer(MarkupFile(templateMatch.templateCode, attrOut)) :
          /\ calls' = calls \o t.calls
          /\ IF t.out.ok
             THEN /\ result' = Processed(Splice(MatchSubject, templateMatch,
                                                t.out.code),
                                         t.out.map, t.out.dependencies, NoList)
                  /\ pc' = "done"
             ELSE /\ result' = t.out
                  /\ pc' = "rejected"
          /\ optionsCache' = t.cache
          /\ objects' = t.count
    /\ UNCHANGED << config, kind, block, optArgs, optOut, processorOptions,
                    onBefore, markupTagName, optId, inflight, tsVars, document,
                    markupContent, attrStr, attrOut, templateMatch >>

\* The promise settled and the host took the outcome.
ReturnMarkup ==
    /\ pc \in {"done", "rejected"}
    /\ pc' = "idle"
    /\ result' = NoResult
    /\ calls' = << >>
    /\ attrStr' = << >>
    /\ attrOut' = {}
    /\ document' = << >>
    /\ markupContent' = << >>
    /\ templateMatch' = NoMatch
    /\ UNCHANGED aside

NextMarkup ==
    \/ InvokeMarkup
    \/ MarkupOnBefore
    \/ MarkupReplace
    \/ MarkupMatch
    \/ MarkupTransform
    \/ ReturnMarkup

SpecMarkup == InitMarkup /\ [][NextMarkup]_vars

-----------------------------------------------------------------------------
(* autoPreprocess: the options cache under blocks processed at once *)

\* The (lang, alias) pairs parseFile resolves for the blocks explored.
CachePairs ==
    { [lang |-> "scss", alias |-> "scss"],
      [lang |-> "scss", alias |-> "sass"],
      [lang |-> "typescript", alias |-> "typescript"],
      [lang |-> "typescript", alias |-> "ts"] }

CacheGiven(name) ==
    { Absent, OptFalse, OptFn(name), OptObj(UserBag),
      OptObj([EmptyBag EXCEPT !["indentedSyntax"] = "false"]) }

CacheConfigs ==
    { [n \in {"scss", "sass", "typescript"} |->
          IF n = "scss" THEN a ELSE IF n = "sass" THEN b ELSE c]
      : a \in CacheGiven("scss"), b \in CacheGiven("sass"),
        c \in CacheGiven("typescript") }

InitCache ==
    /\ transformers \in CacheConfigs
    /\ preserve \in { {}, {"ts"} }
    /\ sourceMap = FALSE
    /\ postcssInstalled = FALSE
    /\ pc = "blocks"
    /\ kind = NONE
    /\ block = NoBlock
    /\ result = NoResult
    /\ calls = << >>
    /\ optArgs = NoOptArgs
    /\ optOut = Absent
    /\ attrStr = << >>
    /\ attrOut = {}
    /\ processorOptions = Absent
    /\ NoMarkupYet
    /\ NoCacheYet
    /\ NoTsYet

others == << config, pc, kind, block, result, calls, optArgs, optOut, attrStr,
             attrOut, processorOptions, markupVars, optId, tsVars >>

\* The host calls script or style for a block: getTransformerTo awaits
\* parseFile.
CacheInvoke(b) ==
    /\ inflight[b].pc = "idle"
    /\ \E p \in CachePairs :
          inflight' = [inflight EXCEPT
                          ![b] = [NotInFlight EXCEPT !.pc = "parseFile",
                                     !.lang = p.lang, !.alias = p.alias]]
    /\ UNCHANGED << others, optionsCache, objects >>

\* parseFile resolved: the preserve, target-language and disabled-language
\* tests, then getTransformerOptions and the call of runTransformer, in one
\* turn of the event loop.
CacheDispatch(b) ==
    /\ inflight[b].pc = "parseFile"
    /\ LET f == inflight[b]
       IN  IF f.lang \in preserve \/ f.alias \in preserve
           THEN /\ inflight' = [inflight EXCEPT ![b].pc = "done"]
                /\ UNCHANGED << optionsCache, objects >>
           ELSE IF Lookup(f.lang).kind = "false" \/ Lookup(f.alias).kind = "false"
           THEN /\ inflight' = [inflight EXCEPT ![b].pc = "rejected"]
                /\ UNCHANGED << optionsCache, objects >>
           ELSE LET got == autoGetTransformerOptionsCached(optionsCache, objects,
                                                           f.lang, f.alias)
                IN  /\ inflight' = [inflight EXCEPT
                                      ![b].pc = "runTransformer",
                                      ![b].options = got.out,
                                      ![b].ref = got.ref]
                    /\ optionsCache' = got.cache
                    /\ objects' = got.count
    /\ UNCHANGED others

\* The transformer settled.  It works on a copy of the options it was given
\* (options = {includePaths, ...options}), so the bag it got is as it was.
CacheSettle(b) ==
    /\ inflight[b].pc = "runTransformer"
    /\ \E next \in {"done", "rejected"} :
          inflight' = [inflight EXCEPT ![b].pc = next]
    /\ UNCHANGED << others, optionsCache, objects >>

\* The block's promise settled and the host took the outcome.
CacheReturn(b) ==
    /\ inflight[b].pc \in {"done", "rejected"}
    /\ inflight' = [inflight EXCEPT ![b] = NotInFlight]
    /\ UNCHANGED << others, optionsCache, objects >>

NextCache ==
    \E b \in CacheBlocks :
       \/ CacheInvoke(b)
       \/ CacheDispatch(b)
       \/ CacheSettle(b)
       \/ CacheReturn(b)

SpecCache == InitCache /\ [][NextCache]_vars

-----------------------------------------------------------------------------
(* The standalone processors: processors/scss.ts, processors/typescript.ts *)

\* options = {includePaths, ...options}; if (alias === 'sass')
\* options.indentedSyntax = true.  (includePaths, which only the compiler
\* reads, is not among the keys followed.)
ScssOptions(options, alias) ==
    IF alias = "sass"
    THEN OptObj([options.bag EXCEPT !["indentedSyntax"] = "true"])
    ELSE options

\* {...transformed, dependencies: concat(dependencies, transformed.dependencies)}
ProcessorResultDropTag(dependencies, transformed) ==
    [transformed EXCEPT !.dependencies = concat(NoList, transformed.dependencies)]

ProcessorResult(dependencies, transformed) ==
    [transformed EXCEPT
        !.dependencies = concat(Arr(dependencies), transformed.dependencies)]

\* The options a processor may be made with; typescript() may get none.
ProcessorOptions(type) ==
    { OptObj(EmptyBag), OptObj(UserBag),
      OptObj([EmptyBag EXCEPT !["indentedSyntax"] = "false"]) }
    \cup (IF type = "script" THEN {Absent} ELSE {})

\* scss(options) or typescript(options) was called; `kind` tells which: the
\* scss processor has a style entry point, the typescript one a script one.
InitProcessors ==
    /\ transformers \in {[n \in ConfigNames |-> Absent]}
    /\ preserve = {}
    /\ sourceMap = FALSE
    /\ postcssInstalled = FALSE
    /\ pc = "ready"
    /\ kind \in {"style", "script"}
    /\ block = NoBlock
    /\ result = NoResult
    /\ calls = << >>
    /\ optArgs = NoOptArgs
    /\ optOut = Absent
    /\ attrStr = << >>
    /\ attrOut = {}
    /\ processorOptions \in ProcessorOptions(kind)
    /\ NoMarkupYet
    /\ NoCacheYet
    /\ NoTsYet

besides == << config, kind, optArgs, optOut, attrStr, attrOut, markupVars,
             cacheVars, tsVars >>

\* The host calls the scss processor's style(svelteFile).
InvokeScssProcessor ==
    /\ pc = "ready" /\ kind = "style"
    /\ \E b \in Blocks("style") : block' = b
    /\ pc' = "scss"
    /\ UNCHANGED << besides, result, calls, processorOptions >>

\* The host calls the typescript processor's script(svelteFile).
InvokeTypescriptProcessor ==
    /\ pc = "ready" /\ kind = "script"
    /\ \E b \in Blocks("script") : block' = b
    /\ pc' = "typescript"
    /\ UNCHANGED << besides, result, calls, processorOptions >>

\* scss.ts, style(svelteFile)
ScssProcessorStyle ==
    /\ pc = "scss"
    /\ \E info \in parseFile(block, "css") :
          IF ~info.ok
          THEN /\ calls' = << Import("scss") >>
               /\ result' = Rejected("ENOENT")
               /\ pc' = "rejected"
               /\ UNCHANGED processorOptions
          ELSE IF info.lang # "scss"
          THEN /\ calls' = << Import("scss") >>
               /\ result' = Processed(info.content, NoMap, NoList, NoList)
               /\ pc' = "done"
               /\ UNCHANGED processorOptions
          ELSE LET options == ScssOptions(processorOptions, info.alias)
                   args == Args(info.content, NoMap, NoBlock.attributes)
               IN  /\ processorOptions' = options
                   /\ \E r \in Answers(<< "transformer", "scss" >>, args) :
                         /\ calls' = << Import("scss"),
                                        Call("transformer", "scss", args,
                                             options, r) >>
                         /\ result' = IF r.ok
                                      THEN ProcessorResult(info.dependencies, r)
                                      ELSE r
                         /\ pc' = IF r.ok THEN "done" ELSE "rejected"
    /\ UNCHANGED << besides, block >>

\* typescript.ts, script(svelteFile)
TypescriptProcessorScript ==
    /\ pc = "typescript"
    /\ \E info \in getTagInfo(block) :
          IF ~info.ok
          THEN /\ calls' = << Import("typescript") >>
               /\ result' = Rejected("ENOENT")
               /\ pc' = "rejected"
          ELSE IF info.lang # "typescript"
          THEN /\ calls' = << Import("typescript") >>
               /\ result' = Processed(info.content, NoMap, NoList, NoList)
               /\ pc' = "done"
          ELSE LET args == Args(prepareContent(processorOptions, info.content),
                                NoMap, block.attributes)
               IN  \E r \in Answers(<< "transformer", "typescript" >>, args) :
                      /\ calls' = << Import("typescript"),
                                     Call("transformer", "typescript", args,
                                          processorOptions, r) >>
                      /\ result' = IF r.ok
                                   THEN ProcessorResult(info.dependencies, r)
                                   ELSE r
                      /\ pc' = IF r.ok THEN "done" ELSE "rejected"
    /\ UNCHANGED << besides, block, processorOptions >>

\* The promise settled and the host took the outcome.
ReturnProcessor ==
    /\ pc \in {"done", "rejected"}
    /\ pc' = "ready"
    /\ block' = NoBlock
    /\ result' = NoResult
    /\ calls' = << >>
    /\ UNCHANGED << besides, processorOptions >>

NextProcessors ==
    \/ InvokeScssProcessor
    \/ InvokeTypescriptProcessor
    \/ ScssProcessorStyle
    \/ TypescriptProcessorScript
    \/ ReturnProcessor

SpecProcessors == InitProcessors /\ [][NextProcessors]_vars

-----------------------------------------------------------------------------
(* transformers/typescript.js: the compiler options *)

\* The values the transformer fixes.
TsFixed ==
    [k \in TsFixedKeys |->
        CASE k = "target" -> "es5"
          [] k = "strict" -> "true"
          [] k = "module" -> "es2015"
          [] OTHER        -> "node"]

\* {...a, ...b}: the properties of b over those of a.
Spread(a, b) == [k \in TsKeys |-> IF b[k] # UNSET THEN b[k] ELSE a[k]]

\* {...json, target: 'es5', strict: true, module: 'es2015',
\*  moduleResolution: 'node'}
WithFixed(json) ==
    [k \in TsKeys |-> IF k \in TsFixedKeys THEN TsFixed[k] ELSE json[k]]

\* The layers with the user's compilerOptions spread last.
LayerCompilerOptionsUserLast(tsconfig, user) ==
    Spread(WithFixed(tsconfig), user)

\* compilerOptionsJSON when a tsconfig file was read.
LayerCompilerOptions(tsconfig, user) == WithFixed(Spread(tsconfig, user))

\* x || {}
OrEmpty(maybe) == IF maybe.defined THEN maybe.json ELSE EmptyJson

\* The transformer up to its call of compileTypeScriptCode: how it ends, the
\* compilerOptionsJSON it reached, and the calls of the typescript library it
\* made.  `errors` is whether convertCompilerOptionsFromJson reports any.
typescriptTransformer(options, env, errors) ==
    LET tsconfigPath == options.tsconfigPath \/ env.found
        user         == OrEmpty(options.compilerOptions)
        lookup       == IF options.tsconfigPath THEN << >>
                        ELSE << "findConfigFile" >>
    IN  IF tsconfigPath /\ env.readError
        THEN [pc |-> "thrown", json |-> user,
              log |-> lookup \o << "readConfigFile" >>]
        ELSE LET json == IF tsconfigPath
                         THEN LayerCompilerOptions(OrEmpty(env.config), user)
                         ELSE user
                 log  == lookup
                         \o (IF tsconfigPath THEN << "readConfigFile" >>
                             ELSE << >>)
                         \o << "convertCompilerOptionsFromJson" >>
             IN  IF errors
                 THEN [pc |-> "thrown", json |-> json, log |-> log]
                 ELSE [pc |-> "returned", json |-> json,
                       log |-> log \o << "createProgram" >>]

\* The compilerOptions explored: up to two of target, strict and noEmit given.
TsValues == {"x", "y"}

CompilerJsons ==
    { j \in [TsKeys -> TsValues \cup {UNSET}] :
         /\ j["module"] = UNSET /\ j["moduleResolution"] = UNSET
         /\ \E k \in TsKeys : j[k] = UNSET /\ k \notin {"module", "moduleResolution"} }

MaybeJsons == {NoJson} \cup { [defined |-> TRUE, json |-> j] : j \in CompilerJsons }

\* What is on disk: whether findConfigFile finds a tsconfig file, whether
\* reading the one used fails, and the compilerOptions it holds.
TsEnvs == [found : BOOLEAN, readError : BOOLEAN, config : MaybeJsons]

\* The options of a call: whether tsconfigPath is given, and compilerOptions.
TsOptions == [tsconfigPath : BOOLEAN, compilerOptions : MaybeJsons]

InitTypescript ==
    /\ transformers \in { [n \in ConfigNames |-> Absent] }
    /\ preserve = {}
    /\ sourceMap = FALSE
    /\ postcssInstalled = FALSE
    /\ pc = "typescript"
    /\ kind = NONE
    /\ block = NoBlock
    /\ result = NoResult
    /\ calls = << >>
    /\ optArgs = NoOptArgs
    /\ optOut = Absent
    /\ attrStr = << >>
    /\ attrOut = {}
    /\ processorOptions = Absent
    /\ NoMarkupYet
    /\ NoCacheYet
    /\ tsEnv \in TsEnvs
    /\ tsArgs = NoTsArgs
    /\ tsRun = NotRun

\* A call of the transformer with some options.
TypescriptTransform ==
    /\ pc = "typescript"
    /\ \E options \in TsOptions, errors \in BOOLEAN :
          /\ tsArgs' = options
          /\ tsRun' = typescriptTransformer(options, tsEnv, errors)
    /\ UNCHANGED << config, pc, kind, block, result, calls, optArgs, optOut,
                    attrStr, attrOut, processorOptions, markupVars, cacheVars,
                    tsEnv >>

NextTypescript == TypescriptTransform

SpecTypescript == InitTypescript /\ [][NextTypescript]_vars

-----------------------------------------------------------------------------
(* What the claims speak of *)

TargetOf(type) == IF type = "script" THEN "javascript" ELSE "css"

\* The block's content and dependencies once its tag info resolved.
TagContent ==
    IF block.attributes.src = NONE THEN block.content ELSE ExternalContent

TagDependencies ==
    IF block.attributes.src = NONE
    THEN << >>
    ELSE << SrcDependency(block.attributes) >>

\* The language and alias the block in flight resolves to, and the options
\* and content its primary stage works with.
BlockLanguage == Resolved(kind, getLanguage(block.attributes))

PrimaryOptions ==
    GetTransformerOptions(BlockLanguage.lang, BlockLanguage.alias)

PreparedContent == prepareContent(PrimaryOptions, TagContent)

InFlight == kind \in {"script", "style"}

BlockPreserved == InFlight /\ Preserved(BlockLanguage)

\* The block is not preserved and is already in the target language.
PassThroughCase ==
    InFlight /\ ~BlockPreserved /\ BlockLanguage.lang = TargetOf(kind)

\* The block is not preserved and has to be transformed.
DispatchCase ==
    InFlight /\ ~BlockPreserved /\ BlockLanguage.lang # TargetOf(kind)

\* The primary stage resolved and the next stage has not started.
PrimaryResolved == pc \in {"babel", "postcss"}

\* The calls answered so far (the imports left out), in order.
Answered == SelectSeq(calls, LAMBDA e : e.op # "import")

-----------------------------------------------------------------------------
(* C1 *)

\* The layers of a call, highest first: the alias' user config, the
\* language's user config, the alias' defaults, the language's defaults.
UserLayer(key) ==
    IF Lookup(key).kind = "object" THEN Lookup(key).bag ELSE EmptyBag

Layers(name, alias) ==
    << UserLayer(alias), UserLayer(name),
       getLanguageDefaults(alias), getLanguageDefaults(name) >>

Highest(layers, k) ==
    layers[CHOOSE i \in 1..Len(layers) :
              /\ Has(layers[i], k)
              /\ \A j \in 1..(i - 1) : ~Has(layers[j], k)][k]

\* C1: getTransformerOptions(lang, alias) with lang # alias and neither config
\* a function or false: a key set in more than one layer carries the value of
\* the highest layer, alias user config > language user config > alias
\* defaults > language defaults.  (The sourceMap toggle, which the claim does
\* not speak of, is off.)
C1_MergePrecedence ==
    ( /\ optArgs # NoOptArgs
      /\ optArgs.name # optArgs.alias
      /\ Lookup(optArgs.name).kind \notin {"function", "false"}
      /\ Lookup(optArgs.alias).kind \notin {"function", "false"}
      /\ ~sourceMap )
    => \A k \in OptionKeys :
          LET layers == Layers(optArgs.name, optArgs.alias)
          IN  Cardinality({i \in 1..Len(layers) : Has(layers[i], k)}) > 1
              => optOut.bag[k] = Highest(layers, k)

-----------------------------------------------------------------------------
(* C2 *)

\* C2: a style block that declares lang="scss" while the config has
\* scss: false is rejected with the unsupported-language error; it never
\* resolves.
C2_DisabledLanguageRejects ==
    ( /\ kind = "style"
      /\ block.attributes.lang = "scss"
      /\ block.attributes.src = NONE
      /\ Lookup("scss").kind = "false"
      /\ ~BlockPreserved
      /\ pc \notin {"idle", "primary"} )
    => pc = "rejected" /\ result.error = "UnsupportedLanguageError"

-----------------------------------------------------------------------------
(* C3 *)

\* C3: for a block whose lang or alias is in the preserve list, the entry
\* point returns the block's content as code and no stage is invoked: no
\* primary transformer, no babel, no postcss, no globalStyle.
C3_PreservedRunsNoStage ==
    BlockPreserved
    => /\ calls = << >>
       /\ pc = "done" => result.code = TagContent

-----------------------------------------------------------------------------
(* C4 *)

\* C4: a block that is not preserved and whose language is the target language
\* of its kind: the primary stage answers {code: content, dependencies} (the
\* prepared content, the tag info's dependencies) and has loaded and called
\* nothing, whatever that language's options are; it rejects only when the
\* tag info does.
C4_TargetLanguagePassThrough ==
    PassThroughCase
    => /\ PrimaryResolved
          => /\ calls = << >>
             /\ result = Processed(PreparedContent, NoMap,
                                   Arr(TagDependencies), NoList)
       /\ (pc = "rejected" /\ calls = << >>)
          => /\ result.error = "ENOENT"
             /\ block.attributes.src # NONE

C4_Witness ==
    /\ PassThroughCase
    /\ PrimaryResolved
    /\ Lookup(BlockLanguage.lang).kind = "function"
    /\ block.attributes.src # NONE

-----------------------------------------------------------------------------
(* C5 *)

\* C5: a style block with no lang, type or src attribute, with no postcss
\* stage configured: the code returned is the input content and the
\* dependency list is empty.
C5_NativeStyleRoundTrip ==
    ( /\ kind = "style"
      /\ block.attributes.lang = NONE
      /\ block.attributes.src = NONE
      /\ ~Truthy(Lookup("postcss"))
      /\ pc = "done" )
    => /\ result.code = block.content
       /\ result.dependencies.items = << >>

-----------------------------------------------------------------------------
(* C6 *)

\* C6: when the options of the primary stage's transform are a function,
\* the function is called exactly once, with the content, map and attributes
\* of the arguments; what it answers is what transform returns; the built-in
\* transformer of the language is neither loaded nor called, also for a
\* language that has none.
C6_FunctionOptionsCalled ==
    (DispatchCase /\ PrimaryOptions.kind = "function")
    => /\ \A i \in 1..Len(calls) :
             calls[i].name = BlockLanguage.lang => calls[i].op = "function"
       /\ PrimaryResolved
          => /\ Len(calls) = 1
             /\ calls[1].op = "function"
             /\ calls[1].name = PrimaryOptions.fn
             /\ calls[1].content = PreparedContent
             /\ calls[1].map = NoMap
             /\ calls[1].attributes = block.attributes
             /\ calls[1].answer.ok
             /\ result.code = calls[1].answer.code
             /\ result.map = calls[1].answer.map
             /\ result.diagnostics = calls[1].answer.diagnostics

C6_Witness ==
    /\ DispatchCase
    /\ PrimaryOptions.kind = "function"
    /\ BlockLanguage.lang = "customLanguage"
    /\ PrimaryResolved
    /\ result.map # NoMap

-----------------------------------------------------------------------------
(* C7 *)

\* C7: a block that has to be transformed, in a language with no transformer
\* module, with options that are neither false nor a function: transform
\* rejects and so does the entry point; the content is never returned.
C7_UnknownLanguageRejects ==
    ( /\ DispatchCase
      /\ BlockLanguage.lang \notin TransformerModules
      /\ PrimaryOptions.kind \notin {"false", "function"}
      /\ pc \notin {"idle", "primary"} )
    => /\ pc = "rejected"
       /\ ~result.ok
       /\ result.code = NoCode
       /\ Answered = << >>

C7_Witness ==
    /\ DispatchCase
    /\ BlockLanguage.lang \notin TransformerModules
    /\ Lookup(BlockLanguage.lang).kind = "true"
    /\ pc = "rejected"
    /\ result.error = "MODULE_NOT_FOUND"

-----------------------------------------------------------------------------
(* C8 *)

\* The primary stage and the postcss stage both called a transformer.
BothStagesRan ==
    /\ kind = "style"
    /\ DispatchCase
    /\ PrimaryOptions.kind # "false"
    /\ postcssInstalled
    /\ Truthy(Lookup("postcss"))
    /\ GetTransformerOptions("postcss",
           getLanguage(block.attributes).alias).kind # "false"
    /\ pc \in {"globalStyle", "done"}

\* C8: when the primary transform and the postcss stage both ran, the
\* dependencies of style are the tag info's, then the primary stage's, then
\* the postcss stage's, every entry kept.
C8_StyleDependenciesInOrder ==
    BothStagesRan
    => /\ Len(Answered) >= 2
       /\ result.dependencies =
             Arr(TagDependencies
                 \o Answered[1].answer.dependencies.items
                 \o Answered[2].answer.dependencies.items)

C8_Witness ==
    /\ BothStagesRan
    /\ pc = "done"
    /\ block.attributes.src # NONE
    /\ Len(result.dependencies.items) = 5

-----------------------------------------------------------------------------
(* C9 *)

BabelCalls == SelectSeq(Answered, LAMBDA e : e.name = "babel")

BabelSet == kind = "script" /\ Truthy(Lookup("babel"))

\* The babel stage is not called before the primary stage resolved, and
\* once at most.
C9_BabelOnceAfterPrimary ==
    BabelSet
    => /\ pc \in {"primary", "babel"} => BabelCalls = << >>
       /\ pc = "done"
          => /\ Len(BabelCalls) = 1
             /\ Answered[Len(Answered)] = BabelCalls[1]

\* The step of the babel stage: it is given the primary stage's code and
\* map, and the result carries its code and map and the merged lists.
C9_BabelStep ==
    (BabelSet /\ pc = "babel" /\ pc' = "done")
    => LET e == calls'[Len(calls')]
       IN  /\ Len(calls') > Len(calls)
           /\ e.content = result.code
           /\ e.map = result.map
           /\ result'.code = e.answer.code
           /\ result'.map = e.answer.map
           /\ result'.dependencies =
                 Arr(result.dependencies.items \o e.answer.dependencies.items)
           /\ result'.diagnostics =
                 Arr(result.diagnostics.items \o e.answer.diagnostics.items)

\* C9: with a babel config set, script invokes the babel stage exactly once,
\* after the primary stage resolved, on the primary stage's code and map; the
\* code and map returned are the babel stage's (an undefined map too), the
\* dependencies and diagnostics the primary stage's followed by babel's.
C9_BabelStage == [](C9_BabelOnceAfterPrimary) /\ [][C9_BabelStep]_vars

C9_Witness ==
    /\ BabelSet
    /\ pc = "done"
    /\ Len(Answered) = 2
    /\ Answered[1].answer.map # NoMap
    /\ result.map = NoMap
    /\ Len(result.dependencies.items) = 3

-----------------------------------------------------------------------------
(* C10 *)

\* The attribute bag a tag's attribute string stands for: the string is cut
\* at the white space outside quotes, a token name="v" gives name -> v and a
\* token without a value gives name -> true.
RECURSIVE SplitOutsideQuotes(_, _, _, _)
SplitOutsideQuotes(str, quoted, cur, acc) ==
    IF str = << >>
    THEN IF cur = << >> THEN acc ELSE Append(acc, cur)
    ELSE IF Head(str) = SPACE /\ ~quoted
    THEN SplitOutsideQuotes(Tail(str), quoted, << >>,
                            IF cur = << >> THEN acc ELSE Append(acc, cur))
    ELSE SplitOutsideQuotes(Tail(str),
                            IF Head(str) = QUOTE THEN ~quoted ELSE quoted,
                            Append(cur, Head(str)), acc)

FirstEquals(token) ==
    IF \E i \in 1..Len(token) : token[i] = EQUALS
    THEN CHOOSE i \in 1..Len(token) :
            token[i] = EQUALS /\ \A j \in 1..(i - 1) : token[j] # EQUALS
    ELSE 0

\* A token is a name, or name="v" with no quote inside v.
WellFormedToken(token) ==
    LET eq == FirstEquals(token)
    IN  IF eq = 0
        THEN \A i \in 1..Len(token) : token[i] # QUOTE
        ELSE /\ eq > 1
             /\ \A i \in 1..(eq - 1) : token[i] # QUOTE
             /\ Len(token) >= eq + 2
             /\ token[eq + 1] = QUOTE
             /\ token[Len(token)] = QUOTE
             /\ \A i \in (eq + 2)..(Len(token) - 1) : token[i] # QUOTE

RECURSIVE MeantAttrs(_, _)
MeantAttrs(tokens, acc) ==
    IF tokens = << >> THEN acc
    ELSE LET token == Head(tokens)
             eq == FirstEquals(token)
         IN  MeantAttrs(Tail(tokens),
                 SetAttr(acc,
                         IF eq = 0 THEN token ELSE SubSeq(token, 1, eq - 1),
                         IF eq = 0 THEN AttrTrue
                         ELSE AttrValue(SubSeq(token, eq + 2, Len(token) - 1))))

ScenarioAttrs ==
    { << << "c", "l", "a", "s", "s" >>, AttrValue(<< "a", SPACE, "b" >>) >>,
      << << "d", "i", "s", "a", "b", "l", "e", "d" >>, AttrTrue >> }

\* C10: the attribute string  class="a b" disabled  is parsed to
\* {class: "a b", disabled: true}; in general every name="v" token gives
\* name -> v without the quotes and every token without a value gives
\* name -> true.
C10_QuotedValueStaysOne ==
    pc = "parsed"
    => /\ attrStr = ScenarioStr => attrOut = ScenarioAttrs
       /\ LET tokens == SplitOutsideQuotes(attrStr, FALSE, << >>, << >>)
          IN  (\A i \in 1..Len(tokens) : WellFormedToken(tokens[i]))
              => attrOut = MeantAttrs(tokens, {})

-----------------------------------------------------------------------------
(* C15 *)

-----------------------------------------------------------------------------
(* C17 *)

\* C17: when a block with an external src file is preserved, what the primary
\* stage returns still carries the block's dependencies (the src file path),
\* the list the target-language pass-through carries.
C17_PreservedKeepsDependencies ==
    ( /\ BlockPreserved
      /\ block.attributes.src # NONE
      /\ PrimaryResolved )
    => result.dependencies = Arr(TagDependencies)

-----------------------------------------------------------------------------
(* C18 *)

\* The load or call at position i of the record failed.
Failed(i) ==
    IF calls[i].op = "import"
    THEN calls[i].name \notin TransformerModules
    ELSE ~calls[i].answer.ok

\* The error the entry point has to reject with: that of the stage that
\* failed, which is the tag-info resolution when nothing was loaded or called.
StageError ==
    IF calls = << >> THEN "ENOENT"
    ELSE IF calls[Len(calls)].op = "import" THEN "MODULE_NOT_FOUND"
    ELSE calls[Len(calls)].answer.error

\* C18 (state): a load or call that failed is the last one made and the
\* entry point is then rejected; a rejected entry point carries the error of
\* the stage that failed and nothing of the earlier stages (no code, no map,
\* no dependencies, no diagnostics).
C18_RejectedCarriesTheError ==
    InFlight
    => /\ \A i \in 1..Len(calls) :
             Failed(i) => i = Len(calls) /\ pc = "rejected"
       /\ pc = "rejected"
          => /\ calls # << >> => Failed(Len(calls))
             /\ calls = << >> => block.attributes.src # NONE
             /\ result = Rejected(StageError)

\* C18 (step): once rejected, no stage is invoked: the only step is the host
\* taking the rejection.
C18_RejectedStep ==
    pc = "rejected" => pc' = "idle" /\ calls' = << >>

\* C18: if any stage of a block rejects, the entry point rejects with that
\* error, no later stage is invoked and no partial result is returned.
C18_RejectionPropagates ==
    [](C18_RejectedCarriesTheError) /\ [][C18_RejectedStep]_vars

\* An earlier stage resolved with code, map and dependencies, and a later one
\* rejected.
C18_Witness ==
    /\ pc = "rejected"
    /\ Len(Answered) = 2
    /\ Answered[1].answer.ok
    /\ Answered[1].answer.dependencies.defined
    /\ ~Answered[2].answer.ok

-----------------------------------------------------------------------------
(* C19 *)

\* The globalStyle module was loaded or its transformer called.
GlobalStyleInvoked ==
    \E i \in 1..Len(calls) : calls[i].name = "globalStyle"

\* C19: style invokes the globalStyle stage only if the block's attributes
\* carry the global marker: for a block without the global attribute the
\* globalStyle transformer is never invoked.
C19_GlobalStyleOnlyWhenMarked ==
    (kind = "style" /\ ~block.attributes.global) => ~GlobalStyleInvoked

-----------------------------------------------------------------------------
(* C16 *)

\* The language a standalone processor is for.
ProcessorLanguage == IF kind = "style" THEN "scss" ELSE "typescript"

\* The block names an external file, and resolves to the processor's language.
ExternalCase ==
    /\ pc \in {"done", "rejected"}
    /\ block.attributes.src # NONE
    /\ getLanguage(block.attributes).lang = ProcessorLanguage

-----------------------------------------------------------------------------
(* C11 *)

\* The pattern markup matches with: the tag name in lower case.
TagName == toLocaleLowerCase(markupTagName)

\* The pattern was matched against the content (and markup has not returned
\* to the host).
Matched == pc \in {"transform", "done"}

\* The calls of the markup transformer's stage (the replace stage left out).
TransformerCalls == SelectSeq(Answered, LAMBDA e : e.name # "replace")

\* The code the markup transformer returned, as a text: the code its
\* transformer answered or, on the pass-through, the inner content.
TransformerCode ==
    IF TransformerCalls # << >>
    THEN Stringify(TransformerCalls[1].answer.code)
    ELSE Stringify(templateMatch.templateCode)

\* C11: for a document in which the wrapper-tag pattern matches, the code
\* markup returns is (text before the match) + (code the markup transformer
\* returned) + (text after the match); the text before the start of the match
\* and after its end is that of the input, which is the document itself when
\* neither onBefore nor replace is configured.
C11_SpliceKeepsTheRest ==
    (pc = "done" /\ templateMatch.found)
    => LET m == templateMatch
           before == SubSeq(markupContent, 1, m.index - 1)
           after  == SubSeq(markupContent, m.index + m.length,
                            Len(markupContent))
       IN  /\ SubSeq(markupContent, m.index, m.index + 1) = << LT, TagName >>
           /\ result.code = before \o TransformerCode \o after
           /\ SubSeq(result.code, 1, Len(before)) = before
           /\ SubSeq(result.code, Len(result.code) - Len(after) + 1,
                     Len(result.code)) = after
           /\ (~onBefore /\ ~Truthy(Lookup("replace")))
              => markupContent = document

C11_Witness ==
    /\ pc = "done" /\ templateMatch.found
    /\ templateMatch.index > 1
    /\ templateMatch.index + templateMatch.length <= Len(document)
    /\ markupContent = document
    /\ TransformerCalls # << >>
    /\ templateMatch.attributesStr # << >>

-----------------------------------------------------------------------------
(* C12 *)

\* C12: for a document with no wrapper tag, with neither onBefore nor replace
\* configured, markup returns the document as its code and never calls the
\* markup transformer, whatever is configured for the languages; its output
\* has no wrapper tag either, so applying markup again returns it once more.
C12_NoWrapperIsIdentity ==
    ( /\ pc \in {"transform", "done", "rejected"}
      /\ ~onBefore
      /\ ~Truthy(Lookup("replace"))
      /\ ~Match(document, TagName).found )
    => /\ pc = "done"
       /\ calls = << >>
       /\ result = Processed(document, NoMap, NoList, NoList)
       /\ ~Match(result.code, TagName).found

C12_Witness ==
    /\ pc = "done"
    /\ ~onBefore
    /\ ~Truthy(Lookup("replace"))
    /\ ~Match(document, TagName).found
    /\ Lookup("pug").kind = "function"
    /\ Len(document) > 3

-----------------------------------------------------------------------------
(* C13 *)

\* The text with every word in lower case.
LowerCaseText(str) == [i \in 1..Len(str) |-> toLocaleLowerCase(str[i])]

\* C13: the wrapper tag is matched case-insensitively: a tag written in any
\* letter case is located exactly like its lower-case form, for a
\* markupTagName given in any letter case.
C13_TagMatchedInAnyCase ==
    Matched
    => LET lower == Match(LowerCaseText(markupContent), TagName)
       IN  /\ templateMatch.found = lower.found
           /\ templateMatch.index = lower.index
           /\ templateMatch.length = lower.length

-----------------------------------------------------------------------------
(* C14 *)

\* The replace stage's call, when it was made.
ReplaceRan ==
    /\ Len(calls) >= 2
    /\ calls[1] = Import("replace")
    /\ calls[2].name = "replace"
    /\ calls[2].answer.ok

\* C14 (state): once the pattern was matched, the match, the attributes and
\* the splice are those of the replace stage's output code when a replace
\* stage is configured, and those of the document when neither it nor
\* onBefore is.
C14_MatchOnReplaceOutput ==
    Matched
    => LET subject == IF Truthy(Lookup("replace"))
                      THEN calls[2].answer.code
                      ELSE markupContent
           m == Match(subject, TagName)
       IN  /\ Truthy(Lookup("replace")) => ReplaceRan
           /\ (~Truthy(Lookup("replace")) /\ ~onBefore) => subject = document
           /\ templateMatch = m
           /\ m.found => attrOut = ParseAttributes(m.attributesStr)
           /\ pc = "done"
              => result.code = IF m.found
                               THEN Splice(subject, m, Defined(TransformerCode))
                               ELSE subject

\* C14 (step): the pattern is matched in one step only, and when a replace
\* stage is configured that step comes after the stage has answered.
C14_MatchStep ==
    (templateMatch' # templateMatch /\ pc' # "idle")
    => /\ pc = "match"
       /\ Truthy(Lookup("replace")) => ReplaceRan

\* C14: a configured replace stage runs to completion before wrapper-tag
\* detection: match, attribute extraction and splice work on its output.
C14_ReplaceBeforeDetection ==
    [](C14_MatchOnReplaceOutput) /\ [][C14_MatchStep]_vars

\* The replace stage brought in the wrapper tag the document did not have.
C14_Witness ==
    /\ pc = "done"
    /\ Truthy(Lookup("replace"))
    /\ templateMatch.found
    /\ ~Match(document, TagName).found
    /\ Len(document) > 0

-----------------------------------------------------------------------------
(* C20 *)

\* The span matched ends in /> : the tag is self-closing.
SelfClosingMatched ==
    /\ Matched /\ templateMatch.found
    /\ SubSeq(markupContent, templateMatch.index + templateMatch.length - 2,
              templateMatch.index + templateMatch.length - 1) = << SLASH, GT >>

\* C20: for a self-closing wrapper tag the content handed to the markup
\* transformer is the empty string, never undefined, and the span that is
\* replaced is exactly the self-closing tag.
C20_SelfClosingGivesEmptyContent ==
    SelfClosingMatched
    => /\ templateMatch.templateCode = Defined(<< >>)
       /\ SubSeq(markupContent, templateMatch.index,
                 templateMatch.index + templateMatch.length - 1)
          = << LT, TagName >> \o templateMatch.attributesStr \o << SLASH, GT >>

-----------------------------------------------------------------------------
(* C21 *)

\* C21: the scss processor keeps no state between blocks: the options its
\* transformer gets for a block are those given at construction, with
\* indentedSyntax set only for that block's own alias sass.  No processor is
\* made with indentedSyntax = true here, so a block with alias scss never
\* gets it, whatever blocks came before.
C21_ScssProcessorKeepsNoState ==
    ( /\ kind = "style"
      /\ pc \in {"done", "rejected"}
      /\ Answered # << >> )
    => \E given \in ProcessorOptions("style") :
          Answered[1].options =
             ScssOptions(given, getLanguage(block.attributes).alias)

-----------------------------------------------------------------------------
(* C22 *)

\* C22 (state): a block whose getTransformerOptions call returned a bag (its
\* configs not being functions) holds the very object the cache keeps for its
\* alias, and that object's contents are those a fresh computation gives.
C22_CachedBagIsTheFreshOne ==
    \A b \in CacheBlocks :
       (inflight[b].pc = "runTransformer" /\ inflight[b].options.kind # "function")
       => LET e == optionsCache[inflight[b].alias]
          IN  /\ e.ref # 0
              /\ inflight[b].ref = e.ref
              /\ inflight[b].options = OptObj(e.bag)
              /\ e.bag = autoGetTransformerOptions(inflight[b].lang,
                                                   inflight[b].alias).bag

\* C22 (step): an entry the cache holds is never replaced or changed.
C22_EntryStep ==
    \A a \in CacheAliases :
       optionsCache[a].ref # 0 => optionsCache'[a] = optionsCache[a]

\* C22: the memoized option bag is stable under any interleaving of block
\* invocations: an entry once made stays as it is, and every later call for
\* the alias returns that same bag, with the contents of a fresh computation.
C22_CacheStable ==
    [](C22_CachedBagIsTheFreshOne) /\ [][C22_EntryStep]_vars

\* Two blocks of the same alias are with their transformers at once, holding
\* one and the same bag, and another alias of the language has its own.
C22_Witness ==
    /\ inflight["first"].pc = "runTransformer"
    /\ inflight["second"].pc = "runTransformer"
    /\ inflight["first"].alias = "sass"
    /\ inflight["second"].alias = "sass"
    /\ inflight["first"].ref # 0
    /\ inflight["first"].ref = inflight["second"].ref
    /\ optionsCache["scss"].ref # 0
    /\ optionsCache["scss"].bag # optionsCache["sass"].bag

-----------------------------------------------------------------------------
(* C23 *)

\* C23: when the wrapper tag's resolved lang or alias is in the preserve list,
\* autoPreprocess.markup resolves, and the code it returns is the document as
\* it was searched for the tag.
C23_PreservedMarkupResolves ==
    LET tag == getLanguage(MarkupFile(templateMatch.templateCode,
                                      attrOut).attributes)
    IN  ( /\ pc \in {"done", "rejected"}
          /\ templateMatch.found
          /\ (tag.lang \in preserve \/ tag.alias \in preserve) )
        => /\ pc = "done"
           /\ result.ok
           /\ result.code = markupContent

-----------------------------------------------------------------------------
(* C24 *)

\* C24 (state): the kind of what getTransformerOptions returned follows the
\* order alias function, language function, false, merged object.
C24_KindInOrder ==
    (pc = "options" /\ optArgs # NoOptArgs)
    => LET nameOpts  == Lookup(optArgs.name)
           aliasOpts == Lookup(optArgs.alias)
       IN  /\ IF aliasOpts.kind = "function" THEN optOut = aliasOpts
              ELSE IF nameOpts.kind = "function" THEN optOut = nameOpts
              ELSE IF aliasOpts.kind = "false" \/ nameOpts.kind = "false"
              THEN optOut = OptFalse
              ELSE optOut.kind = "object"
           /\ (optId # 0) <=> (optOut.kind = "object")

\* C24 (step): an object returned is none of the objects made before.
C24_FreshStep ==
    optOut'.kind = "object" => optId' \notin 0..objects

\* C24: sveltePreprocess.getTransformerOptions decides the kind of its result
\* in the order alias function, language function, false if either config is
\* false, merged object, so that a function on one key wins over false on the
\* other; and the object it returns is built anew on every call.
C24_OrderAndFresh ==
    [](C24_KindInOrder) /\ [][C24_FreshStep]_vars

\* After two calls that made an object each, a call finds false under the
\* language and a function under the alias, and returns the function.
C24_Witness ==
    /\ pc = "options"
    /\ objects >= 2
    /\ optArgs.name # optArgs.alias
    /\ Lookup(optArgs.name).kind = "false"
    /\ Lookup(optArgs.alias).kind = "function"
    /\ optOut = Lookup(optArgs.alias)

-----------------------------------------------------------------------------
(* C25 *)

\* C25: the options the postcss stage of style hands to its transformer are
\* built from the user's postcss config and the registry defaults alone: the
\* user's config under the block's declared alias is neither merged into them
\* nor used in their place.
C25_PostcssOptionsOwn ==
    ( /\ kind = "style" /\ pc = "globalStyle"
      /\ block.attributes.lang \in {"scss", "sass"}
      /\ Truthy(Lookup("postcss")) /\ Answered # << >> )
    => LET e      == Answered[Len(Answered)]
           own    == Lookup("postcss")
           alias  == getLanguage(block.attributes).alias
           merged == MergeLayers(own, Absent, "postcss", alias)
       IN  IF own.kind = "function"
           THEN e.op = "function" /\ e.options = own
           ELSE /\ e.op = "transformer" /\ e.name = "postcss"
                /\ e.options = OptObj(IF sourceMap /\ "postcss" \in SOURCE_MAP_PROP_MAP
                                      THEN setProp(merged) ELSE merged)

-----------------------------------------------------------------------------
(* C26 *)

=============================================================================
